---- MODULE Spec2Model ----
(***************************************************************************)
(* Model of src/apps/lake/analytics.py: the ECFRAnalytics query methods,   *)
(* the word-count estimator, the report assembler and main().              *)
(*                                                                         *)
(* The DuckDB relations are read-only inputs: each specification draws     *)
(* them in its initial states.  A query is one atomic action (the storage  *)
(* connection answers a request as a whole); main() is a sequence of       *)
(* steps, any of which may raise.                                          *)
(***************************************************************************)
EXTENDS Integers, Sequences, FiniteSets, TLC

VARIABLES
    cfr_references,             \* rows (agency_slug, title, chapter, part)
    agency_metrics,             \* rows of the agency_metrics relation
    corrections_parsed,         \* rows of the corrections_parsed relation
    correction_trends_yearly,   \* rows of the yearly trend view
    correction_trends_by_title, \* rows of the per-title trend view
    correction_time_series,     \* rows of the monthly time-series view
    agencies_parsed,            \* rows of the agencies_parsed relation
    call,                       \* the last method called, with its arguments
    result,                     \* what that call returned
    pc,                         \* main(): the statement about to run
    conn,                       \* analytics.conn: "None", "open" or "closed"
    building,                   \* generate_summary_report: values evaluated
    report,                     \* main(): the local variable report
    files,                      \* state of each output file on disk
    raised,                     \* main(): an exception is propagating
    log                         \* main(): history counters of the run

vars == <<cfr_references, agency_metrics, corrections_parsed,
          correction_trends_yearly, correction_trends_by_title,
          correction_time_series, agencies_parsed, call, result, pc, conn,
          building, report, files, raised, log>>

tables == <<cfr_references, agency_metrics, corrections_parsed,
            correction_trends_yearly, correction_trends_by_title,
            correction_time_series, agencies_parsed>>

mainvars == <<pc, conn, building, report, files, raised, log>>

-----------------------------------------------------------------------------
(* Bounds of the model. *)

MaxRefs == 3        \* rows of cfr_references
MaxJoinRefs == 2    \* rows of cfr_references when it is joined
MaxRows == 3        \* rows of every other relation
MaxVal == 1         \* counts, years and index values range over 0..MaxVal
MaxLimit == 2       \* limit arguments range over 0..MaxLimit

-----------------------------------------------------------------------------
(* Values. *)

NULL == "NULL"                  \* SQL NULL / Python None in a text column
EmptyStr == ""
Slugs == {"epa", "doe"}
AgencySlugs == {"epa", "doe", "usda"}
UnknownSlug == "nasa"           \* a slug no relation holds
Titles == {7, 40}
Chapters == {NULL, EmptyStr, "I"}        \* values of the chapter column
Parts == {NULL, EmptyStr, "A"}           \* values of the part column

None == << >>                   \* Python None where a value is optional
Some(v) == << v >>              \* a value that is there

\* Python truthiness of a text value fetched from DuckDB (None or str).
Truthy(v) == v # NULL /\ v # EmptyStr

\* Python truthiness of an optional integer: None and 0 are false.
TruthyInt(o) == o # None /\ o[1] # 0

SeqsUpTo(S, n) == UNION { [1..k -> S] : k \in 0..n }

Range(s) == { s[i] : i \in DOMAIN s }

\* The orders in which fetchall() may deliver the rows of the set S.
Enumerations(S) ==
    { e \in [1..Cardinality(S) -> S] : \A i, j \in DOMAIN e : i # j => e[i] # e[j] }

\* The methods only read the relations, so a call's result does not depend on
\* the calls before it: a behaviour of the query specifications is one call.
NoCall == [op |-> "none"]
NotCalled == call = NoCall

-----------------------------------------------------------------------------
(* calculate_word_counts *)

PartWeight == 2000
ChapterWeight == 10000
TitleWeight == 50000

\* SELECT agency_slug, title, chapter, part, COUNT(*) ... GROUP BY all four.
GroupedReferences(refs) ==
    { [agency_slug |-> g.agency_slug, title |-> g.title, chapter |-> g.chapter,
       part |-> g.part,
       ref_count |-> Cardinality({ i \in DOMAIN refs : refs[i] = g })]
      : g \in Range(refs) }

\* Faulty variant: the chapter test placed before the part test.
WeightChapterFirst(chapter, part) ==
    IF Truthy(chapter) THEN ChapterWeight
    ELSE IF Truthy(part) THEN PartWeight
    ELSE TitleWeight

\* The if / elif / else of the loop body.
Weight(chapter, part) ==
    IF Truthy(part) THEN PartWeight
    ELSE IF Truthy(chapter) THEN ChapterWeight
    ELSE TitleWeight

\* Faulty variant: the contribution ignores ref_count.
ContributionOnce(row) == Weight(row.chapter, row.part)

Contribution(row) == row.ref_count * Weight(row.chapter, row.part)

\* One iteration: initialise an unseen slug to zero, then add.
LoopBody(word_counts, row) ==
    LET slug == row.agency_slug
        seen == IF slug \in DOMAIN word_counts
                THEN word_counts
                ELSE [s \in DOMAIN word_counts \cup {slug} |->
                        IF s = slug THEN 0 ELSE word_counts[s]]
    IN  [seen EXCEPT ![slug] = @ + Contribution(row)]

RECURSIVE WordCountLoop(_, _, _)
WordCountLoop(results, i, word_counts) ==
    IF i > Len(results) THEN word_counts
    ELSE WordCountLoop(results, i + 1, LoopBody(word_counts, results[i]))

EmptyDict == [s \in {} |-> 0]

CalculateWordCounts ==
    /\ NotCalled
    /\ \E results \in Enumerations(GroupedReferences(cfr_references)) :
         /\ result' = [word_counts |-> WordCountLoop(results, 1, EmptyDict),
                       applied |-> { [row |-> results[i],
                                      weight |-> Weight(results[i].chapter,
                                                        results[i].part)]
                                     : i \in DOMAIN results }]
    /\ call' = [op |-> "calculate_word_counts"]
    /\ UNCHANGED <<tables, mainvars>>

-----------------------------------------------------------------------------
(* SQL building blocks shared by the listing queries. *)

Min(a, b) == IF a <= b THEN a ELSE b

\* ORDER BY: every enumeration of the rows S in which each row may precede
\* the rows after it.  MayPrecede holds the pairs <<a, b>> where the sort key
\* of a is not after that of b; rows with equal keys come in any order (SQL
\* leaves it open).
OrderBy(S, MayPrecede) ==
    { e \in Enumerations(S) :
        \A i, j \in DOMAIN e : i < j => <<e[i], e[j]>> \in MayPrecede }

\* The pairs of rows of S, of which an ORDER BY clause keeps some.
Pairs(S) == S \X S

\* LIMIT k
Limit(e, k) == SubSeq(e, 1, Min(k, Len(e)))

\* ROUND(x, 1) of a non-negative value held in hundredths; the result is in
\* tenths.  DuckDB rounds halves away from zero.
Round1(hundredths) == (hundredths + 5) \div 10

-----------------------------------------------------------------------------
(* get_agency_metrics *)

AgencyColumns(r) ==
    [slug |-> r.slug, name |-> r.name, short_name |-> r.short_name,
     parent_slug |-> r.parent_slug,
     cfr_reference_count |-> r.cfr_reference_count,
     child_count |-> r.child_count,
     total_corrections |-> r.total_corrections,
     years_with_corrections |-> r.years_with_corrections,
     first_correction_year |-> r.first_correction_year,
     last_correction_year |-> r.last_correction_year,
     avg_correction_lag_days |-> Round1(r.avg_correction_lag_days),
     rvi |-> r.rvi]

\* Faulty variant: ORDER BY total_corrections (ascending).
ByTotalCorrectionsAsc(a, b) == a.total_corrections <= b.total_corrections

\* ORDER BY total_corrections DESC
ByTotalCorrectionsDesc(a, b) == a.total_corrections >= b.total_corrections

\* The possible return values of get_agency_metrics(limit); the LIMIT clause
\* is appended only when the argument is truthy.
AgencyMetricsQuery(table, limit) ==
    { [i \in DOMAIN rows |-> AgencyColumns(rows[i])]
      : rows \in { IF TruthyInt(limit) THEN Limit(e, limit[1]) ELSE e
                   : e \in OrderBy(table, { p \in Pairs(table) :
                                              ByTotalCorrectionsDesc(p[1], p[2]) }) } }

GetAgencyMetrics ==
    /\ NotCalled
    /\ \E limit \in {None} \cup { Some(k) : k \in 0..MaxLimit } :
         /\ call' = [op |-> "get_agency_metrics", limit |-> limit]
         /\ result' \in AgencyMetricsQuery(agency_metrics, limit)
    /\ UNCHANGED <<tables, mainvars>>

-----------------------------------------------------------------------------
(* get_top_agencies_by_rvi *)

RviColumns(r) ==
    [slug |-> r.slug, name |-> r.name, short_name |-> r.short_name,
     total_corrections |-> r.total_corrections,
     cfr_reference_count |-> r.cfr_reference_count, rvi |-> r.rvi]

\* Faulty variant: the WHERE clause dropped.
WhereAnyCorrections(r) == TRUE

\* WHERE total_corrections > 0
WhereHasCorrections(r) == r.total_corrections > 0

\* ORDER BY rvi DESC
ByRviDesc(a, b) == a.rvi >= b.rvi

TopAgenciesByRviQuery(table, limit) ==
    LET selected == { r \in table : WhereHasCorrections(r) }
    IN  { [i \in DOMAIN rows |-> RviColumns(rows[i])]
          : rows \in { Limit(e, limit)
                       : e \in OrderBy(selected, { p \in Pairs(selected) :
                                                     ByRviDesc(p[1], p[2]) }) } }

GetTopAgenciesByRvi ==
    /\ NotCalled
    /\ \E limit \in 0..MaxLimit :
         /\ call' = [op |-> "get_top_agencies_by_rvi", limit |-> limit]
         /\ result' \in TopAgenciesByRviQuery(agency_metrics, limit)
    /\ UNCHANGED <<tables, mainvars>>

-----------------------------------------------------------------------------
(* get_agency_detail *)

\* Faulty variant: the WHERE clause dropped, fetchone() takes whatever row is first.
WhereAnySlug(r, slug) == TRUE

\* WHERE slug = ?
WhereSlugIs(r, slug) == r.slug = slug

\* fetchone() delivers one of the matching rows, or None when there is none.
AgencyDetailQuery(table, slug) ==
    LET matches == { r \in table : WhereSlugIs(r, slug) }
    IN  IF matches = {} THEN {None}
        ELSE { Some(AgencyColumns(r)) : r \in matches }

GetAgencyDetail ==
    /\ NotCalled
    /\ \E slug \in AgencySlugs \cup {UnknownSlug} :
         /\ call' = [op |-> "get_agency_detail", slug |-> slug]
         /\ result' \in AgencyDetailQuery(agency_metrics, slug)
    /\ UNCHANGED <<tables, mainvars>>

-----------------------------------------------------------------------------
(* get_correction_trends_yearly, get_correction_trends_by_title,
   get_time_series_data *)

YearlyColumns(r) ==
    [year |-> r.year, correction_count |-> r.correction_count,
     unique_titles |-> r.unique_titles,
     avg_lag_days |-> Round1(r.avg_lag_days),
     min_lag_days |-> r.min_lag_days, max_lag_days |-> r.max_lag_days]

\* ORDER BY year
ByYear(a, b) == a.year <= b.year

CorrectionTrendsYearlyQuery(table) ==
    { [i \in DOMAIN rows |-> YearlyColumns(rows[i])]
      : rows \in OrderBy(table, { p \in Pairs(table) : ByYear(p[1], p[2]) }) }

GetCorrectionTrendsYearly ==
    /\ NotCalled
    /\ call' = [op |-> "get_correction_trends_yearly"]
    /\ result' \in CorrectionTrendsYearlyQuery(correction_trends_yearly)
    /\ UNCHANGED <<tables, mainvars>>

TitleColumns(r) ==
    [title |-> r.title, correction_count |-> r.correction_count,
     years_active |-> r.years_active, first_year |-> r.first_year,
     last_year |-> r.last_year, avg_lag_days |-> Round1(r.avg_lag_days)]

\* ORDER BY correction_count DESC
ByCorrectionCountDesc(a, b) == a.correction_count >= b.correction_count

CorrectionTrendsByTitleQuery(table, limit) ==
    { [i \in DOMAIN rows |-> TitleColumns(rows[i])]
      : rows \in { Limit(e, limit)
                   : e \in OrderBy(table, { p \in Pairs(table) :
                                              ByCorrectionCountDesc(p[1], p[2]) }) } }

GetCorrectionTrendsByTitle ==
    /\ NotCalled
    /\ \E limit \in 0..MaxLimit :
         /\ call' = [op |-> "get_correction_trends_by_title", limit |-> limit]
         /\ result' \in CorrectionTrendsByTitleQuery(correction_trends_by_title,
                                                     limit)
    /\ UNCHANGED <<tables, mainvars>>

TimeSeriesColumns(r) ==
    [year |-> r.year, month |-> r.month,
     correction_count |-> r.correction_count,
     avg_lag_days |-> Round1(r.avg_lag_days)]

\* ORDER BY year, month
ByYearMonth(a, b) == a.year < b.year \/ (a.year = b.year /\ a.month <= b.month)

TimeSeriesQuery(table) ==
    { [i \in DOMAIN rows |-> TimeSeriesColumns(rows[i])]
      : rows \in OrderBy(table, { p \in Pairs(table) : ByYearMonth(p[1], p[2]) }) }

GetTimeSeriesData ==
    /\ NotCalled
    /\ call' = [op |-> "get_time_series_data"]
    /\ result' \in TimeSeriesQuery(correction_time_series)
    /\ UNCHANGED <<tables, mainvars>>

-----------------------------------------------------------------------------
(* get_corrections_for_agency *)

CorrectionColumns(c) ==
    [ecfr_id |-> c.ecfr_id, cfr_reference |-> c.cfr_reference,
     title |-> c.title, corrective_action |-> c.corrective_action,
     error_occurred |-> c.error_occurred,
     error_corrected |-> c.error_corrected, lag_days |-> c.lag_days,
     year |-> c.year]

\* Faulty variant: SELECT title (no DISTINCT): one row per reference of the agency.
AgencyTitlesAll(refs, slug) ==
    { [title |-> refs[i].title, ref |-> i]
      : i \in { j \in DOMAIN refs : refs[j].agency_slug = slug } }

\* WITH agency_titles AS (SELECT DISTINCT title FROM cfr_references
\*                        WHERE agency_slug = ?)
AgencyTitles(refs, slug) ==
    { [title |-> refs[i].title]
      : i \in { j \in DOMAIN refs : refs[j].agency_slug = slug } }

\* corrections_parsed c INNER JOIN agency_titles at ON c.title = at.title:
\* one joined row per pair that matches.
JoinOnTitle(corrections, titles) ==
    { jr \in [c : corrections, at : titles] : jr.c.title = jr.at.title }

\* ORDER BY c.year DESC, c.error_corrected DESC
ByYearDescDateDesc(a, b) ==
    \/ a.c.year > b.c.year
    \/ a.c.year = b.c.year /\ a.c.error_corrected >= b.c.error_corrected

JoinedColumns(jr) == CorrectionColumns(jr.c)

CorrectionsForAgencyQuery(refs, corrections, slug, limit) ==
    LET joined == JoinOnTitle(corrections, AgencyTitles(refs, slug))
    IN  { [i \in DOMAIN rows |-> JoinedColumns(rows[i])]
          : rows \in { Limit(e, limit)
                       : e \in OrderBy(joined, { p \in Pairs(joined) :
                                                   ByYearDescDateDesc(p[1], p[2]) }) } }

GetCorrectionsForAgency ==
    /\ NotCalled
    /\ \E slug \in Slugs \cup {UnknownSlug}, limit \in 0..MaxLimit :
         /\ call' = [op |-> "get_corrections_for_agency", slug |-> slug,
                     limit |-> limit]
         /\ result' \in CorrectionsForAgencyQuery(cfr_references,
                                                  corrections_parsed, slug, limit)
    /\ UNCHANGED <<tables, mainvars>>

-----------------------------------------------------------------------------
(* generate_summary_report, export_for_postgres and main *)

Database == "ecfr_analytics.duckdb"
ExportFiles ==
    <<"agencies.json", "corrections.json", "agency_metrics.json",
      "time_series.json">>
\* The statements of export_for_postgres, one query and one write per file.
ExportQuerySteps ==
    <<"query_agencies", "query_corrections", "query_agency_metrics",
      "query_time_series">>
ExportWriteSteps ==
    <<"write_agencies", "write_corrections", "write_agency_metrics",
      "write_time_series">>
ReportFile == "summary_report.json"
OutputFiles == Range(ExportFiles) \cup {ReportFile}
AllFiles == OutputFiles \cup {Database}

\* What the run has done so far.
NoLog == [opens |-> 0, closes |-> 0, query_after_close |-> FALSE, written |-> {}]

ReportLimit == 10

\* SELECT MIN(year), MAX(year) FROM corrections_parsed
YearRange(corrections) ==
    IF corrections = {} THEN << None, None >>
    ELSE << Some(CHOOSE y \in { c.year : c \in corrections } :
                   \A c \in corrections : y <= c.year),
            Some(CHOOSE y \in { c.year : c \in corrections } :
                   \A c \in corrections : y >= c.year) >>

\* The values of the dictionary display, in the order Python evaluates them;
\* each is one query on the connection.
SummaryValues ==
    << {Cardinality(agencies_parsed)},
       {Cardinality(corrections_parsed)},
       {Len(cfr_references)},
       {YearRange(corrections_parsed)},
       AgencyMetricsQuery(agency_metrics, Some(ReportLimit)),
       TopAgenciesByRviQuery(agency_metrics, ReportLimit),
       CorrectionTrendsYearlyQuery(correction_trends_yearly),
       CorrectionTrendsByTitleQuery(correction_trends_by_title, ReportLimit) >>

\* The dictionary generate_summary_report returns, once all values are there.
SummaryDocument(v) ==
    [overview |-> [total_agencies |-> v[1], total_corrections |-> v[2],
                   total_cfr_references |-> v[3], year_range |-> v[4]],
     top_agencies_by_corrections |-> v[5],
     top_agencies_by_rvi |-> v[6],
     yearly_trends |-> v[7],
     top_titles |-> v[8]]

\* Faulty variant: the statements are not inside try / finally: an exception leaves
\* main at once.
RaiseUnprotected ==
    /\ raised' = TRUE
    /\ pc' = "failed"

\* An exception inside the try block of main: control goes to the finally
\* block, and the exception goes on to the caller after it.
Raise ==
    /\ raised' = TRUE
    /\ pc' = "finally"

\* self.conn.execute(...): the query is issued on the connection as it is.
IssueQuery ==
    log' = [log EXCEPT !.query_after_close = @ \/ conn = "closed"]

\* main up to the try block: no database file, no run.
MainStart ==
    /\ pc = "idle"
    /\ pc' = IF files[Database] = "absent" THEN "returned" ELSE "connect"
    /\ UNCHANGED <<tables, call, result, conn, building, report, files, raised,
                   log>>

\* analytics.connect(): duckdb.connect, then a print.
Connect ==
    /\ pc = "connect"
    /\ \/ /\ Raise                               \* duckdb.connect raises
          /\ UNCHANGED <<conn, log>>
       \/ /\ conn' = "open"
          /\ log' = [log EXCEPT !.opens = @ + 1]
          /\ \/ Raise                            \* the print raises
             \/ pc' = "summary" /\ UNCHANGED raised
    /\ UNCHANGED <<tables, call, result, building, report, files>>

\* generate_summary_report: the next value of the dictionary display.  The
\* dictionary exists, and report is bound, only after the last one.
SummaryQuery ==
    /\ pc = "summary"
    /\ IssueQuery
    /\ \/ /\ Raise
          /\ building' = << >>
          /\ UNCHANGED report
       \/ \E v \in SummaryValues[Len(building) + 1] :
            LET values == Append(building, v)
            IN  IF Len(values) < Len(SummaryValues)
                THEN /\ building' = values
                     /\ UNCHANGED <<pc, report, raised>>
                ELSE /\ building' = << >>
                     /\ report' = Some(SummaryDocument(values))
                     /\ pc' = "print_report"
                     /\ UNCHANGED raised
    /\ UNCHANGED <<tables, call, result, conn, files>>

\* The prints of the report's sections.
PrintReport ==
    /\ pc = "print_report"
    /\ \/ Raise
       \/ pc' = "mkdir" /\ UNCHANGED raised
    /\ UNCHANGED <<tables, call, result, conn, building, report, files, log>>

\* export_for_postgres: output_dir.mkdir(parents=True, exist_ok=True)
ExportMkdir ==
    /\ pc = "mkdir"
    /\ \/ Raise
       \/ pc' = ExportQuerySteps[1] /\ UNCHANGED raised
    /\ UNCHANGED <<tables, call, result, conn, building, report, files, log>>

\* export_for_postgres: SELECT * FROM export_... of the i-th export.
ExportQuery ==
    /\ \E i \in DOMAIN ExportFiles :
         /\ pc = ExportQuerySteps[i]
         /\ IssueQuery
         /\ \/ Raise
            \/ pc' = ExportWriteSteps[i] /\ UNCHANGED raised
    /\ UNCHANGED <<tables, call, result, conn, building, report, files>>

\* export_for_postgres: to_json of the i-th export.  The write fails before
\* the file is opened, or part way, or it completes.
ExportWrite ==
    /\ \E i \in DOMAIN ExportFiles :
         /\ pc = ExportWriteSteps[i]
         /\ \/ /\ Raise
               /\ UNCHANGED <<files, log>>
            \/ /\ Raise
               /\ files' = [files EXCEPT ![ExportFiles[i]] = "partial"]
               /\ log' = [log EXCEPT !.written = @ \cup {ExportFiles[i]}]
            \/ /\ files' = [files EXCEPT ![ExportFiles[i]] = "complete"]
               /\ log' = [log EXCEPT !.written = @ \cup {ExportFiles[i]}]
               /\ pc' = IF i < Len(ExportFiles) THEN ExportQuerySteps[i + 1]
                        ELSE "open_report"
               /\ UNCHANGED raised
    /\ UNCHANGED <<tables, call, result, conn, building, report>>

\* with open(report_file, 'w') as f: the file is created or truncated.
OpenReportFile ==
    /\ pc = "open_report"
    /\ \/ /\ Raise
          /\ UNCHANGED <<files, log>>
       \/ /\ files' = [files EXCEPT ![ReportFile] = "partial"]
          /\ log' = [log EXCEPT !.written = @ \cup {ReportFile}]
          /\ pc' = "dump_report"
          /\ UNCHANGED raised
    /\ UNCHANGED <<tables, call, result, conn, building, report>>

\* json.dump(report, f, indent=2, default=str), then the file is closed.
DumpReport ==
    /\ pc = "dump_report"
    /\ \/ /\ Raise
          /\ UNCHANGED files
       \/ /\ files' = [files EXCEPT ![ReportFile] = "complete"]
          /\ pc' = "print_done"
          /\ UNCHANGED raised
    /\ UNCHANGED <<tables, call, result, conn, building, report, log>>

\* The closing prints of the try block.
PrintDone ==
    /\ pc = "print_done"
    /\ \/ Raise
       \/ pc' = "finally" /\ UNCHANGED raised
    /\ UNCHANGED <<tables, call, result, conn, building, report, files, log>>

\* ECFRAnalytics.close: if self.conn: self.conn.close()
Close(c) == IF c # "None" THEN "closed" ELSE c

\* finally: analytics.close(); then main returns, or the exception goes on.
Finally ==
    /\ pc = "finally"
    /\ conn' = Close(conn)
    /\ log' = [log EXCEPT !.closes = IF conn # "None" THEN @ + 1 ELSE @]
    /\ pc' = IF raised THEN "failed" ELSE "returned"
    /\ UNCHANGED <<tables, call, result, building, report, files, raised>>

-----------------------------------------------------------------------------
(* Initial states. *)

MainIdle ==
    /\ pc = "idle"
    /\ conn = "None"
    /\ building = << >>
    /\ report = None
    /\ files = [f \in AllFiles |-> "absent"]
    /\ raised = FALSE
    /\ log = NoLog

\* Reference rows of one title, every combination of chapter and part.
WordCountRefRows ==
    [agency_slug : Slugs, title : {40}, chapter : Chapters, part : Parts]

InitWordCounts ==
    /\ cfr_references \in SeqsUpTo(WordCountRefRows, MaxRefs)
    /\ agency_metrics = {}
    /\ corrections_parsed = {}
    /\ correction_trends_yearly = {}
    /\ correction_trends_by_title = {}
    /\ correction_time_series = {}
    /\ agencies_parsed = {}
    /\ call = NoCall
    /\ result = << >>
    /\ MainIdle

\* The sets of at most n elements of S.
SubsetsUpTo(S, n) == { T \in SUBSET S : Cardinality(T) <= n }

\* The relations with a key: at most n rows, one per key; Row[k, d] is the
\* row with the key k and the choice d of the other columns.
KeyedRelations(Keys, Data, Row, n) ==
    UNION { { { Row[k, f[k]] : k \in K } : f \in [K -> Data] }
            : K \in SubsetsUpTo(Keys, n) }

Years == { 2018 + k : k \in 0..MaxVal }

\* Rows of agency_metrics: slug is the key; total_corrections,
\* cfr_reference_count and rvi vary freely; the other columns are fixed by
\* them.  avg_correction_lag_days is in hundredths of a day.
AgencyData == [tc : 0..MaxVal, crc : 0..1, rvi : 0..MaxVal]

AgencyRow(s, d) ==
    [slug |-> s, name |-> <<"name of", s>>, short_name |-> <<"short", s>>,
     parent_slug |-> NULL, cfr_reference_count |-> d.crc, child_count |-> 0,
     total_corrections |-> d.tc, years_with_corrections |-> Min(d.tc, 1),
     first_correction_year |-> 2018,
     last_correction_year |-> 2018 + d.tc,
     avg_correction_lag_days |-> 10 * d.tc + 4 + d.crc, rvi |-> d.rvi]

AgencyRows == [k \in AgencySlugs, d \in AgencyData |-> AgencyRow(k, d)]

\* Rows of correction_trends_yearly: year is the key.
YearlyRow(y, n) ==
    [year |-> y, correction_count |-> n, unique_titles |-> 1,
     avg_lag_days |-> 10 * n + 5, min_lag_days |-> 0, max_lag_days |-> n]

YearlyRows == [y \in Years, n \in 1..2 |-> YearlyRow(y, n)]

\* Rows of correction_trends_by_title: title is the key.
TrendTitles == {7, 21, 40}

TitleRow(t, n) ==
    [title |-> t, correction_count |-> n, years_active |-> 1,
     first_year |-> 2018, last_year |-> 2018,
     avg_lag_days |-> 10 * n + 4]

TitleRows == [t \in TrendTitles, n \in 0..MaxVal |-> TitleRow(t, n)]

\* Rows of correction_time_series: (year, month) is the key.
TimeSeriesRows ==
    { [year |-> y, month |-> m, correction_count |-> 1, avg_lag_days |-> 15]
      : y \in Years, m \in {1, 12} }

\* Corrections: the date is yyyymmdd, the year is the year of the date.
CorrectionDates == {20180601, 20190301, 20190901, 20200115}

CorrectionRows ==
    { [ecfr_id |-> 100 * t + (d % 97), cfr_reference |-> <<t, "CFR">>,
       title |-> t, corrective_action |-> "Corrected",
       error_occurred |-> d - 10000, error_corrected |-> d, lag_days |-> 365,
       year |-> d \div 10000]
      : t \in Titles, d \in CorrectionDates }

\* References of the agencies to whole titles.
JoinRefRows ==
    [agency_slug : Slugs, title : Titles, chapter : {NULL}, part : {NULL}]

NoTables(populated) ==
    /\ "agency_metrics" \in populated \/ agency_metrics = {}
    /\ "yearly" \in populated \/ correction_trends_yearly = {}
    /\ "by_title" \in populated \/ correction_trends_by_title = {}
    /\ "time_series" \in populated \/ correction_time_series = {}
    /\ "corrections" \in populated
         \/ (cfr_references = << >> /\ corrections_parsed = {})
    /\ agencies_parsed = {}

\* The listing queries each read one relation (get_corrections_for_agency
\* reads two): the initial states populate one of them at a time.
InitListings ==
    /\ \/ /\ agency_metrics \in KeyedRelations(AgencySlugs, AgencyData, AgencyRows,
                                              MaxRows)
          /\ NoTables({"agency_metrics"})
       \/ /\ correction_trends_yearly \in
                KeyedRelations(Years, 1..2, YearlyRows, MaxRows)
          /\ NoTables({"yearly"})
       \/ /\ correction_trends_by_title \in
                KeyedRelations(TrendTitles, 0..MaxVal, TitleRows, MaxRows)
          /\ NoTables({"by_title"})
       \/ /\ correction_time_series \in SubsetsUpTo(TimeSeriesRows, MaxRows)
          /\ NoTables({"time_series"})
       \/ /\ cfr_references \in SeqsUpTo(JoinRefRows, MaxJoinRefs)
          /\ corrections_parsed \in SubsetsUpTo(CorrectionRows, MaxRows)
          /\ NoTables({"corrections"})
    /\ call = NoCall
    /\ result = << >>
    /\ MainIdle

NextListings ==
    \/ GetAgencyMetrics
    \/ GetTopAgenciesByRvi
    \/ GetAgencyDetail
    \/ GetCorrectionTrendsYearly
    \/ GetCorrectionTrendsByTitle
    \/ GetTimeSeriesData
    \/ GetCorrectionsForAgency

SpecListings == InitListings /\ [][NextListings]_vars

NextWordCounts == CalculateWordCounts

SpecWordCounts == InitWordCounts /\ [][NextWordCounts]_vars

\* A database with a few rows in every relation.
SampleDatabase ==
    /\ agencies_parsed = {"epa", "doe"}
    /\ agency_metrics = { AgencyRow("epa", [tc |-> 1, crc |-> 1, rvi |-> 1]),
                          AgencyRow("doe", [tc |-> 1, crc |-> 0, rvi |-> 0]) }
    /\ cfr_references = << [agency_slug |-> "epa", title |-> 40,
                            chapter |-> "I", part |-> NULL] >>
    /\ corrections_parsed = { c \in CorrectionRows : c.title = 40 }
    /\ correction_trends_yearly = { YearlyRow(2018, 1) }
    /\ correction_trends_by_title = { TitleRow(40, 1), TitleRow(7, 1) }
    /\ correction_time_series = {}

EmptyDatabase ==
    /\ agencies_parsed = {}
    /\ agency_metrics = {}
    /\ cfr_references = << >>
    /\ corrections_parsed = {}
    /\ correction_trends_yearly = {}
    /\ correction_trends_by_title = {}
    /\ correction_time_series = {}

\* main runs on a machine where the database file is there or not, and where
\* each output file is there from an earlier run or not.
InitMain ==
    /\ SampleDatabase \/ EmptyDatabase
    /\ call = NoCall
    /\ result = << >>
    /\ pc = "idle"
    /\ conn = "None"
    /\ building = << >>
    /\ report = None
    /\ files \in [AllFiles -> {"absent", "old"}]
    /\ raised = FALSE
    /\ log = NoLog

NextMain ==
    \/ MainStart
    \/ Connect
    \/ SummaryQuery
    \/ PrintReport
    \/ ExportMkdir
    \/ ExportQuery
    \/ ExportWrite
    \/ OpenReportFile
    \/ DumpReport
    \/ PrintDone
    \/ Finally

SpecMain == InitMain /\ [][NextMain]_vars

-----------------------------------------------------------------------------
(* Properties of the word-count estimator. *)

\* A chapter or part is present when the reference names it: the column is
\* neither NULL nor the empty text.
Present(v) == v \notin {NULL, EmptyStr}

\* The weight table of the estimator.
TierWeight(t) ==
    IF Present(t.part) THEN 2000
    ELSE IF Present(t.chapter) THEN 10000
    ELSE 50000

RECURSIVE SumOfContributions(_)
SumOfContributions(tuples) ==
    IF tuples = {} THEN 0
    ELSE LET t == CHOOSE x \in tuples : TRUE
         IN  t.ref_count * TierWeight(t) + SumOfContributions(tuples \ {t})

-----------------------------------------------------------------------------
(* Properties of the listing queries. *)

IsPrefix(p, s) ==
    /\ Len(p) <= Len(s)
    /\ \A i \in DOMAIN p : p[i] = s[i]

LimitedOps ==
    {"get_agency_metrics", "get_top_agencies_by_rvi",
     "get_correction_trends_by_title", "get_corrections_for_agency"}

\* The limit k of the last call, when it was a limited listing called with one.
HasLimit ==
    /\ call.op \in LimitedOps
    /\ call.op = "get_agency_metrics" => call.limit # None

LimitOfCall ==
    IF call.op = "get_agency_metrics" THEN call.limit[1] ELSE call.limit

\* The listings the same query may return when nothing truncates it.
UnlimitedListings ==
    CASE call.op = "get_agency_metrics" ->
           AgencyMetricsQuery(agency_metrics, None)
      [] call.op = "get_top_agencies_by_rvi" ->
           TopAgenciesByRviQuery(agency_metrics, Cardinality(agency_metrics))
      [] call.op = "get_correction_trends_by_title" ->
           CorrectionTrendsByTitleQuery(correction_trends_by_title,
                                        Cardinality(correction_trends_by_title))
      [] call.op = "get_corrections_for_agency" ->
           CorrectionsForAgencyQuery(cfr_references, corrections_parsed,
                                     call.slug,
                                     Cardinality(corrections_parsed))

\* C3: every limited listing called with a limit k >= 0, k = 0 included,
\* returns at most k records, and they are a prefix of an unlimited listing
\* of the same query under the same sort order.
C3_LimitCorrectness ==
    HasLimit =>
        /\ Len(result) <= LimitOfCall
        /\ \E full \in UnlimitedListings : IsPrefix(result, full)

\* C4: get_top_agencies_by_rvi never returns an agency whose
\* total_corrections is 0, and what it returns is ordered by rvi,
\* non-increasing.
C4_RviFilterAndOrder ==
    call.op = "get_top_agencies_by_rvi" =>
        /\ \A i \in DOMAIN result : result[i].total_corrections # 0
        /\ \A i, j \in DOMAIN result : i < j => result[i].rvi >= result[j].rvi

\* C4's example: a has no corrections, b has some; with a limit that admits
\* both, only b is returned.
C4_Witness ==
    /\ call.op = "get_top_agencies_by_rvi"
    /\ call.limit = MaxLimit
    /\ \E a, b \in agency_metrics :
         /\ agency_metrics = {a, b}
         /\ a.total_corrections = 0 /\ a.rvi = 0
         /\ b.total_corrections = 1 /\ b.rvi = 1
         /\ result = << RviColumns(b) >>

\* C5: get_top_agencies_by_rvi never returns a record whose
\* cfr_reference_count is 0.
C5_NoZeroFootprint ==
    call.op = "get_top_agencies_by_rvi" =>
        \A i \in DOMAIN result : result[i].cfr_reference_count # 0

\* C6: get_correction_trends_yearly is non-decreasing in year,
\* get_time_series_data is non-decreasing in (year, month) lexicographically,
\* and get_agency_metrics, with or without a limit, is non-increasing in
\* total_corrections.
C6_OrderingLaws ==
    /\ call.op = "get_correction_trends_yearly" =>
         \A i, j \in DOMAIN result : i < j => result[i].year <= result[j].year
    /\ call.op = "get_time_series_data" =>
         \A i, j \in DOMAIN result : i < j =>
            \/ result[i].year < result[j].year
            \/ /\ result[i].year = result[j].year
               /\ result[i].month <= result[j].month
    /\ call.op = "get_agency_metrics" =>
         \A i, j \in DOMAIN result : i < j =>
            result[i].total_corrections >= result[j].total_corrections

\* get_agency_metrics returned three agencies whose correction counts differ,
\* out of a relation that does not hold them in that order of slug.
C6_Witness ==
    /\ call.op = "get_agency_metrics"
    /\ Len(result) = 3
    /\ result[1].total_corrections > result[3].total_corrections
    /\ result[1].slug = "usda"

TwelveColumns ==
    {"slug", "name", "short_name", "parent_slug", "cfr_reference_count",
     "child_count", "total_corrections", "years_with_corrections",
     "first_correction_year", "last_correction_year",
     "avg_correction_lag_days", "rvi"}

\* The record holds the twelve columns of the row r, the average lag rounded
\* to one decimal.
IsRecordOf(d, r) ==
    /\ DOMAIN d = TwelveColumns
    /\ d.slug = r.slug /\ d.name = r.name /\ d.short_name = r.short_name
    /\ d.parent_slug = r.parent_slug
    /\ d.cfr_reference_count = r.cfr_reference_count
    /\ d.child_count = r.child_count
    /\ d.total_corrections = r.total_corrections
    /\ d.years_with_corrections = r.years_with_corrections
    /\ d.first_correction_year = r.first_correction_year
    /\ d.last_correction_year = r.last_correction_year
    /\ d.avg_correction_lag_days * 10 - 5 <= r.avg_correction_lag_days
    /\ r.avg_correction_lag_days < d.avg_correction_lag_days * 10 + 5
    /\ d.rvi = r.rvi

\* C7: get_agency_detail(slug) returns the record of the row whose slug is
\* the argument, all twelve fields from that row, when there is one, and
\* None when there is none; never a partial record, never another slug's.
C7_LookupCorrectness ==
    call.op = "get_agency_detail" =>
        LET matches == { r \in agency_metrics : r.slug = call.slug }
        IN  IF matches = {} THEN result = None
            ELSE /\ result # None
                 /\ \E r \in matches : IsRecordOf(result[1], r)

\* A hit among three agencies, for a slug that is not the only one.
C7_Witness ==
    /\ call.op = "get_agency_detail"
    /\ call.slug = "epa"
    /\ Cardinality(agency_metrics) = 3
    /\ result # None
    /\ result[1].slug = "epa"

\* a is strictly before b under year descending, then date descending.
StrictlyBefore(a, b) ==
    \/ a.year > b.year
    \/ a.year = b.year /\ a.error_corrected > b.error_corrected

\* C8: get_corrections_for_agency(slug, limit) returns the first `limit`
\* elements of the corrections whose title the agency references, each once,
\* sorted by year descending, then correction date descending.
C8_CorrectionsForAgency ==
    call.op = "get_corrections_for_agency" =>
        LET referenced == { cfr_references[i].title :
                              i \in { j \in DOMAIN cfr_references :
                                        cfr_references[j].agency_slug = call.slug } }
            owned == { CorrectionColumns(c) :
                         c \in { x \in corrections_parsed : x.title \in referenced } }
        IN  /\ Len(result) = Min(call.limit, Cardinality(owned))
            /\ \A i \in DOMAIN result : result[i] \in owned
            /\ \A i, j \in DOMAIN result : i # j => result[i] # result[j]
            /\ \A i, j \in DOMAIN result :
                  i < j => ~ StrictlyBefore(result[j], result[i])
            /\ \A c \in owned : \A i \in DOMAIN result :
                  c \notin Range(result) => ~ StrictlyBefore(c, result[i])

\* C8's example: corrections of the years 2019, 2020 and 2018 on titles the
\* agency references twice over, limit 2: the years 2020, 2019 in that order.
C8_Witness ==
    /\ call.op = "get_corrections_for_agency"
    /\ call.slug = "epa"
    /\ call.limit = 2
    /\ Len(cfr_references) = 2
    /\ \A i \in DOMAIN cfr_references :
         cfr_references[i].agency_slug = "epa" /\ cfr_references[i].title = 40
    /\ { c.year : c \in corrections_parsed } = {2018, 2019, 2020}
    /\ Cardinality(corrections_parsed) = 3
    /\ \A c \in corrections_parsed : c.title = 40
    /\ Len(result) = 2
    /\ result[1].year = 2020
    /\ result[2].year = 2019

-----------------------------------------------------------------------------
(* Properties of main. *)

Ended == pc \in {"returned", "failed"}

\* C9: in one run of main the connection is opened at most once; when the
\* run ends after the connection was opened, by completing or by any failure,
\* the connection has been closed; and no query is issued after the close.
C9_ConnectionReleased ==
    /\ log.opens <= 1
    /\ Ended /\ log.opens > 0 => conn = "closed" /\ log.closes = 1
    /\ ~ log.query_after_close

\* A run that failed while writing the report, with the connection open,
\* has ended with the connection closed.
C9_Witness ==
    /\ pc = "failed"
    /\ log.opens = 1
    /\ files[ReportFile] = "partial"
    /\ conn = "closed"

SummarySections ==
    {"overview", "top_agencies_by_corrections", "top_agencies_by_rvi",
     "yearly_trends", "top_titles"}

\* C10: a run that fails at any step propagates the failure and leaves no
\* partial output: the report is never half-populated, a failure is never
\* swallowed, and a failed run has written no summary report file and no
\* incomplete set of report and export files.
C10_NoPartialOutput ==
    /\ report # None => DOMAIN report[1] = SummarySections
    /\ pc = "returned" => ~ raised
    /\ pc = "failed" => log.written = {}

====
